---- MODULE Spec2Model ----
(***************************************************************************)
(* The layout engine of AncestryFlow: the effect of the TreeVisualization  *)
(* component (src/components/TreeVisualization.tsx), which assigns every   *)
(* family member a generation, orders each generation row, computes the    *)
(* node positions and the canvas size, and derives the connectors.         *)
(*                                                                         *)
(* The recursion of assignGen is modelled call by call: `stack` holds the  *)
(* calls that are still to be made, in the order in which the recursion    *)
(* makes them.  The rest of the effect (grouping, row ordering,            *)
(* coordinates, connectors) has no recursion and is one step.              *)
(*                                                                         *)
(* The research service (src/services/geminiService.ts) is modelled by its *)
(* function performResilientSearch: the two generateContent calls it       *)
(* awaits are promises that the service settles, or leaves pending.        *)
(*                                                                         *)
(* The application shell (src/App.tsx) is modelled by its React state and  *)
(* its handlers, each split at its awaits.                                 *)
(***************************************************************************)
EXTENDS Integers, Sequences, FiniteSets, TLC

VARIABLES
    members,        \* the `members` prop of the component
    pc,             \* position of the effect: start, roots, sweep, done
    generations,    \* the effect's local `generations` (id -> number)
    processed,      \* the effect's local `processed` (set of ids)
    stack,          \* pending assignGen calls <<id, gen>>, next call first
    sweepIdx,       \* index of the orphan sweep `members.forEach` (1-based)
    calls,          \* history: every <<id, gen>> assignGen was called with
    genGroups,      \* the effect's local `genGroups` (gen -> ids)
    sortedRows,     \* per generation, the effect's local `sortedIds`
    nodePositions,  \* positions of the rendered nodes (id -> [x, y])
    dimensions,     \* the React state `dimensions`
    partnerLines,   \* the <line> elements drawn between partners
    parentPaths,    \* the <path> elements drawn from parent to child
    runs,           \* history: completed runs of the effect, counted up to RunsTracked
    searchPc,       \* position of performResilientSearch: idle, search,
                    \* fallback, returned, rejected
    prompt,         \* the `prompt` argument of performResilientSearch
    response,       \* the promise of the search-tool generateContent call
    fallbackResponse, \* the promise of the fallback generateContent call
    searchResult,   \* what performResilientSearch returned
    isProcessing,       \* React state of App
    showUpdateModal,    \* React state of App
    processingStatus,   \* React state of App: a status, or Null
    extractionResult,   \* React state of App: a result, or NoExtraction
    error,              \* React state of App: a message, or Null
    activeTab,          \* React state of App: upload, tree, list
    chatHistory,        \* React state of App
    isChatOpen,         \* React state of App
    previewImageData,   \* React state of App: the image, or Null
    showPreview,        \* React state of App
    tasks,              \* the handlers of App that are awaiting a call
    started             \* history: the handlers that have begun to await

layoutVars == <<members, pc, generations, processed, stack, sweepIdx, calls,
                genGroups, sortedRows, nodePositions, dimensions, partnerLines,
                parentPaths, runs>>

searchVars == <<searchPc, prompt, response, fallbackResponse, searchResult>>

appVars == <<isProcessing, showUpdateModal, processingStatus, extractionResult,
             error, activeTab, chatHistory, isChatOpen, previewImageData,
             showPreview, tasks, started>>

vars == <<layoutVars, searchVars, appVars>>

(***************************************************************************)
(* Layout constants of the effect.                                         *)
(***************************************************************************)
nodeWidth == 240
nodeHeight == 120
verticalGap == 200
horizontalGap == 80
padding == 120

(***************************************************************************)
(* Sequences as JavaScript arrays.                                         *)
(***************************************************************************)
Range(s) == {s[i] : i \in DOMAIN s}

\* Array.prototype.includes
Includes(s, x) == \E i \in DOMAIN s : s[i] = x

RECURSIVE Concat(_)
Concat(ss) == IF ss = <<>> THEN <<>> ELSE Head(ss) \o Concat(Tail(ss))

SetMax(S) == CHOOSE x \in S : \A y \in S : y <= x

SetMin(S) == CHOOSE x \in S : \A y \in S : x <= y

\* the empty Record<string, ...>
EmptyMap == <<>>

\* obj[key] = value
Put(map, key, value) ==
    [k \in (DOMAIN map) \cup {key} |-> IF k = key THEN value ELSE map[k]]

(***************************************************************************)
(* FamilyMember, restricted to the fields the layout reads.  An absent     *)
(* gender is "none"; an absent parents or partners array is the empty      *)
(* array (the code reads both through `?.` and treats them alike).         *)
(***************************************************************************)
FamilyMember(id, gender, parents, partners) ==
    [id |-> id, gender |-> gender, parents |-> parents, partners |-> partners]

MemberIds(m) == {m[i].id : i \in DOMAIN m}

\* members.indexOf(members.find(x => x.id === id)), 1-based; 0 when absent
IndexOfId(m, id) ==
    IF id \in MemberIds(m)
    THEN CHOOSE i \in DOMAIN m : m[i].id = id /\ \A j \in 1..(i - 1) : m[j].id # id
    ELSE 0

\* members.find(x => x.id === id).  For an id that no member has, find
\* returns undefined, which the code reads through `?.` only: it has no
\* gender, no parents and no partners.
FindMember(m, id) ==
    IF id \in MemberIds(m) THEN m[IndexOfId(m, id)]
    ELSE FamilyMember(id, "none", <<>>, <<>>)

(***************************************************************************)
(* The person lists the effect is run on.  A list has the persons of       *)
(* PersonIds in this order (ids are opaque, so a list in another order is  *)
(* one of these with the ids renamed), and at most MaxSize recorded facts: *)
(* a fact is one entry of a parents array, one entry of a partners array   *)
(* or one recorded gender.  Entries may name the person itself, another    *)
(* person, or an id that no person of the list has (DanglingIds).          *)
(***************************************************************************)
PersonIds == <<"a", "b", "c">>
DanglingIds == {"z"}
MaxSize == 4

Genders == {"male", "female", "other", "none"}

Prefix(s, n) == SubSeq(s, 1, n)

\* all arrays that list the elements of the set T once each
Orderings(T) ==
    {s \in [1..Cardinality(T) -> T] : \A i, j \in DOMAIN s : i # j => s[i] # s[j]}

\* one fixed array listing the elements of T
AnyOrder(T) == CHOOSE s \in Orderings(T) : TRUE

\* number of recorded facts of a person
Size(p) == Len(p.parents) + Len(p.partners) + (IF p.gender = "none" THEN 0 ELSE 1)

AllTargets == Range(PersonIds) \cup DanglingIds

\* the parents arrays: one order per set of ids (the layout reads parents
\* with includes only, and draws one path per entry)
ParentArrays == {AnyOrder(S) : S \in SUBSET AllTargets}

\* the partners arrays: every order of every set of ids
PartnerArrays == UNION {Orderings(S) : S \in SUBSET AllTargets}

\* RecordTable[id][k]: the records of `id` with k facts
RecordTable ==
    [id \in Range(PersonIds) |->
        [k \in 0..MaxSize |->
            {p \in {FamilyMember(id, g, ps, qs) :
                        g \in Genders, ps \in ParentArrays, qs \in PartnerArrays}
                : Size(p) = k}]]

RECURSIVE SumSeq(_)
SumSeq(s) == IF s = <<>> THEN 0 ELSE Head(s) + SumSeq(Tail(s))

\* the ways to give n persons at most `budget` facts in all
SizeVectors(n, budget) == {v \in [1..n -> 0..budget] : SumSeq(v) <= budget}

\* the lists of the persons `ids` in which the i-th person has sizes[i] facts
RECURSIVE ListsWith(_, _)
ListsWith(ids, sizes) ==
    IF ids = <<>> THEN {<<>>}
    ELSE {<<p>> \o rest : p \in RecordTable[Head(ids)][Head(sizes)],
                          rest \in ListsWith(Tail(ids), Tail(sizes))}

(***************************************************************************)
(* Example scenario 4 of the specification: grandparent G1, its child P1,  *)
(* P2 without recorded parents, and C1 the child of P1 and P2; in every    *)
(* order of the four persons.                                              *)
(***************************************************************************)
Scenario4Members ==
    { FamilyMember("G1", "none", <<>>, <<>>),
      FamilyMember("P1", "none", <<"G1">>, <<>>),
      FamilyMember("P2", "none", <<>>, <<>>),
      FamilyMember("C1", "none", <<"P1", "P2">>, <<>>) }

Scenario4Inputs == Orderings(Scenario4Members)

(***************************************************************************)
(* Generation assignment: assignGen and its two drivers.                   *)
(***************************************************************************)
\* the calls `list.forEach(x => assignGen(x, gen))` makes, in order
CallsFor(list, gen) == [i \in DOMAIN list |-> <<list[i], gen>>]

IdsOf(m) == [i \in DOMAIN m |-> m[i].id]

\* rootNodes taken out of the list (splice), not copied from it
ListWithoutRootNodes(m) == SelectSeq(m, LAMBDA p : Len(p.parents) # 0)

\* the list after the effect has read it: find, filter, forEach, includes
\* and indexOf are all the effect calls on the list and on the arrays of its
\* persons, and none of them writes
ListAfterReading(m) == m

\* rootNodes: the members without parents
RootNodes(m) == SelectSeq(m, LAMBDA p : Len(p.parents) = 0)

\* a guard that lets a processed id through when it is reached again with
\* the generation it already has
SkipUnlessSameGeneration(id, gen) ==
    id = "" \/ (id \in processed /\ generations[id] # gen)

\* the guard of the call assignGen(id, gen): the call returns at once
Skip(id, gen) == id = "" \/ id \in processed

\* what assignGen stores for a call that is not skipped
Stored(id, gen) == gen

\* a recursion that passes gen, not gen + 1, to the children
RecursionSameGeneration(m, id, gen) ==
    IF id \in MemberIds(m)
    THEN LET children == SelectSeq(m, LAMBDA p : Includes(p.parents, id))
         IN CallsFor(IdsOf(children), gen)
                \o CallsFor(FindMember(m, id).partners, gen)
    ELSE <<>>

\* a recursion that calls assignGen only for the partners that are members
RecursionToPersonsOnly(m, id, gen) ==
    IF id \in MemberIds(m)
    THEN LET children == SelectSeq(m, LAMBDA p : Includes(p.parents, id))
         IN CallsFor(IdsOf(children), gen + 1)
                \o CallsFor(SelectSeq(FindMember(m, id).partners,
                                      LAMBDA p : p \in MemberIds(m)), gen)
    ELSE <<>>

\* the recursive calls of assignGen(id, gen), in order: the children of id
\* in list order with gen + 1, then the partners of id with gen; none when
\* no member has this id
Recursion(m, id, gen) ==
    IF id \in MemberIds(m)
    THEN LET children == SelectSeq(m, LAMBDA p : Includes(p.parents, id))
         IN CallsFor(IdsOf(children), gen + 1)
                \o CallsFor(FindMember(m, id).partners, gen)
    ELSE <<>>

(***************************************************************************)
(* Grouping, row ordering and coordinates.                                 *)
(***************************************************************************)
\* generations[id] ?? 0
GenOf(gens, id) == IF id \in DOMAIN gens THEN gens[id] ELSE 0

\* genGroups: per generation, the ids of its members in list order
GenGroups(m, gens) ==
    [g \in {GenOf(gens, m[i].id) : i \in DOMAIN m} |->
        SelectSeq(IdsOf(m), LAMBDA id : GenOf(gens, id) = g)]

\* a pair of which only the member is placed
PairOrderMemberOnly(member, partner) == <<member.id>>

\* a pair of which the member is always placed first
PairOrderMemberFirst(member, partner) == <<member.id, partner.id>>

\* the order of one pair: the partner first when the member is female and
\* the partner male, else the member first
PairOrder(member, partner) ==
    IF member.gender = "female" /\ partner.gender = "male"
    THEN <<partner.id, member.id>>
    ELSE <<member.id, partner.id>>

\* partners that are taken as they are listed, in the row or not
PartnersUnfiltered(member, idsInGen) == member.partners

\* partnersInRow: the partners of the member that are in its row, in the
\* order of its partners array
PartnersInRow(member, idsInGen) ==
    SelectSeq(member.partners, LAMBDA pId : Includes(idsInGen, pId))

\* a choice of the last partner of the row, not the first
LastPartner(partnersInRow) == partnersInRow[Len(partnersInRow)]

\* partnerId: the first of the partners of the row
ChosenPartner(partnersInRow) == partnersInRow[1]

\* idsInGen.forEach from index i on; acc holds sortedIds and visitedInRow,
\* and the history of what was appended: `pairs`, the pairings made (the
\* member, the partner, the index i of the member in idsInGen and the index
\* of sortedIds at which the pair was appended), and `singles`, the members
\* appended alone
RECURSIVE RowOrderFrom(_, _, _, _)
RowOrderFrom(m, idsInGen, i, acc) ==
    IF i > Len(idsInGen) THEN acc
    ELSE LET id == idsInGen[i]
             member == FindMember(m, id)
             partnersInRow == PartnersInRow(member, idsInGen)
         IN IF id \in acc.visitedInRow
            THEN RowOrderFrom(m, idsInGen, i + 1, acc)
            ELSE IF Len(partnersInRow) > 0
            THEN LET partnerId == ChosenPartner(partnersInRow)
                 IN RowOrderFrom(m, idsInGen, i + 1,
                        [sortedIds |-> acc.sortedIds \o PairOrder(member, FindMember(m, partnerId)),
                         visitedInRow |-> acc.visitedInRow \cup {id, partnerId},
                         pairs |-> acc.pairs \cup
                            {[member |-> id, partner |-> partnerId, turn |-> i,
                              at |-> Len(acc.sortedIds) + 1]},
                         singles |-> acc.singles])
            ELSE RowOrderFrom(m, idsInGen, i + 1,
                        [sortedIds |-> Append(acc.sortedIds, id),
                         visitedInRow |-> acc.visitedInRow \cup {id},
                         pairs |-> acc.pairs,
                         singles |-> acc.singles \cup
                            {[member |-> id, turn |-> i, at |-> Len(acc.sortedIds) + 1]}])

\* the row ordering of one generation, run to its end
RowOrdering(m, idsInGen) ==
    RowOrderFrom(m, idsInGen, 1,
        [sortedIds |-> <<>>, visitedInRow |-> {}, pairs |-> {}, singles |-> {}])

\* sortedIds of one generation
RowOrder(m, idsInGen) == RowOrdering(m, idsInGen).sortedIds

\* the pairings made in the row of one generation
RowPairs(m, idsInGen) == RowOrdering(m, idsInGen).pairs

\* the members appended alone in the row of one generation
RowSingles(m, idsInGen) == RowOrdering(m, idsInGen).singles

SortedRows(m, groups) == [g \in DOMAIN groups |-> RowOrder(m, groups[g])]

\* slots that are one node width apart, without the horizontal gap
SlotXWithoutGap(index) == padding + index * nodeWidth

\* x of the slot with the 0-based index `index`
SlotX(index) == padding + index * (nodeWidth + horizontalGap)

\* a row pitch of one node height plus the vertical gap
RowYWithNodeHeight(gen) == padding + gen * (nodeHeight + verticalGap)

\* y of the row of generation gen
RowY(gen) == padding + gen * verticalGap

\* nodePositions: the rows are written in ascending generation and each row
\* in ascending index, a later write of the same id replacing the earlier
NodePositions(rows) ==
    [id \in UNION {Range(rows[g]) : g \in DOMAIN rows} |->
        LET gen == SetMax({g \in DOMAIN rows : Includes(rows[g], id)})
            index == SetMax({i \in DOMAIN rows[gen] : rows[gen][i] = id}) - 1
        IN [x |-> SlotX(index), y |-> RowY(gen)]]

\* a maxWidth that is assigned, not maximised: the last row written decides
MaxWidthOfLastRow(rows) ==
    LET last == SetMax(DOMAIN rows)
    IN SlotX(Len(rows[last]) - 1) + nodeWidth + padding

\* maxWidth: Math.max over every slot written, starting from 0
MaxWidth(rows) ==
    SetMax({0} \cup {SlotX(i - 1) + nodeWidth + padding :
                        i \in UNION {DOMAIN rows[g] : g \in DOMAIN rows}})

\* a maxHeight that adds the vertical gap, not the node height, to y
MaxHeightWithGap(rows) ==
    SetMax({0} \cup {RowY(g) + verticalGap + padding :
                        g \in {h \in DOMAIN rows : rows[h] # <<>>}})

\* maxHeight: Math.max over every slot written, starting from 0
MaxHeight(rows) ==
    SetMax({0} \cup {RowY(g) + nodeHeight + padding :
                        g \in {h \in DOMAIN rows : rows[h] # <<>>}})

(***************************************************************************)
(* Connectors.                                                             *)
(***************************************************************************)
\* the partner lines: for every member with a position, one line per entry
\* of its partners that has a position and comes later in the list
PartnerLines(m, pos) ==
    Concat([i \in DOMAIN m |->
        IF m[i].id \notin DOMAIN pos THEN <<>>
        ELSE LET drawn == SelectSeq(m[i].partners,
                            LAMBDA pId : pId \in DOMAIN pos /\ i < IndexOfId(m, pId))
             IN [j \in DOMAIN drawn |->
                    [from |-> m[i].id, to |-> drawn[j],
                     x1 |-> pos[m[i].id].x + nodeWidth,
                     y1 |-> pos[m[i].id].y + nodeHeight \div 2,
                     x2 |-> pos[drawn[j]].x,
                     y2 |-> pos[drawn[j]].y + nodeHeight \div 2]]])

\* a path between the left edges of the two nodes, not their centres
ElbowPathFromLeftEdge(pPos, childPos) ==
    LET startY == pPos.y + nodeHeight
        endY == childPos.y
        midY == startY + (endY - startY) \div 2
    IN << <<pPos.x, startY>>, <<pPos.x, midY>>, <<childPos.x, midY>>, <<childPos.x, endY>> >>

\* the path of one parent entry: M start L (startX, midY) L (endX, midY) L end
ElbowPath(pPos, childPos) ==
    LET startX == pPos.x + nodeWidth \div 2
        startY == pPos.y + nodeHeight
        endX == childPos.x + nodeWidth \div 2
        endY == childPos.y
        midY == startY + (endY - startY) \div 2
    IN << <<startX, startY>>, <<startX, midY>>, <<endX, midY>>, <<endX, endY>> >>

\* the parent paths: for every member with a position, one path per entry of
\* its parents that has a position
ParentPaths(m, pos) ==
    Concat([i \in DOMAIN m |->
        IF m[i].id \notin DOMAIN pos THEN <<>>
        ELSE LET drawn == SelectSeq(m[i].parents, LAMBDA parentId : parentId \in DOMAIN pos)
             IN [j \in DOMAIN drawn |->
                    [parent |-> drawn[j], child |-> m[i].id,
                     points |-> ElbowPath(pos[drawn[j]], pos[m[i].id])]]])

(***************************************************************************)
(* performResilientSearch.  A promise of generateContent is none (the call *)
(* is not made), pending, rejected, or fulfilled with a response: its text *)
(* ("" when the response has none) and its grounding chunks (the empty     *)
(* array when the response has none).  A chunk has a web entry or not, and *)
(* a web entry has a uri and a title, "" when absent.                      *)
(***************************************************************************)
Prompts == {"q1", "q2"}
Texts == {"", "found"}
MaxChunks == 2

Chunk(web, uri, title) == [web |-> web, uri |-> uri, title |-> title]

Chunks ==
    {Chunk(FALSE, "", "")} \cup {Chunk(TRUE, u, t) : u \in {"", "u"}, t \in {"", "T"}}

ChunkArrays == UNION {[1..n -> Chunks] : n \in 0..MaxChunks}

Promise(state, text, groundingChunks) ==
    [state |-> state, text |-> text, groundingChunks |-> groundingChunks]

NoCall == Promise("none", "", <<>>)
Pending == Promise("pending", "", <<>>)
Rejected == Promise("rejected", "", <<>>)
Fulfilled(text, groundingChunks) == Promise("fulfilled", text, groundingChunks)

Result(state, text, sources) == [state |-> state, text |-> text, sources |-> sources]

NoResult == Result("none", "", <<>>)

\* sources: the web entries of the chunks that have a uri and a title
Sources(groundingChunks) ==
    LET kept == SelectSeq(groundingChunks,
                    LAMBDA c : c.web /\ c.uri # "" /\ c.title # "")
    IN [i \in DOMAIN kept |-> [uri |-> kept[i].uri, title |-> kept[i].title]]

\* fallbackResponse.text || "No information found."
FallbackText(text) == IF text # "" THEN text ELSE "No information found."

\* no search is running
SearchIdle ==
    /\ searchPc = "idle"
    /\ prompt = ""
    /\ response = NoCall
    /\ fallbackResponse = NoCall
    /\ searchResult = NoResult

\* performResilientSearch(p) is called: it makes the search-tool call and
\* awaits it
SearchCall(p) ==
    /\ searchPc = "idle"
    /\ searchPc' = "search"
    /\ prompt' = p
    /\ response' = Pending
    /\ UNCHANGED <<fallbackResponse, searchResult>>
    /\ UNCHANGED <<layoutVars, appVars>>

\* the service answers the search-tool call
SearchResponds(text, groundingChunks) ==
    /\ searchPc = "search"
    /\ response = Pending
    /\ response' = Fulfilled(text, groundingChunks)
    /\ UNCHANGED <<searchPc, prompt, fallbackResponse, searchResult>>
    /\ UNCHANGED <<layoutVars, appVars>>

\* the search-tool call fails
SearchRejects ==
    /\ searchPc = "search"
    /\ response = Pending
    /\ response' = Rejected
    /\ UNCHANGED <<searchPc, prompt, fallbackResponse, searchResult>>
    /\ UNCHANGED <<layoutVars, appVars>>

\* the await of the search-tool call is over: the promise is settled
AwaitOver == response.state \in {"fulfilled", "rejected"}

\* the function goes on after the await: it returns the response's text and
\* sources, or, when the call failed or gave no text, makes the fallback
\* call and awaits it
SearchSettled ==
    /\ searchPc = "search"
    /\ AwaitOver
    /\ IF response.state = "fulfilled" /\ response.text # ""
       THEN /\ searchPc' = "returned"
            /\ searchResult' = Result("value", response.text, Sources(response.groundingChunks))
            /\ UNCHANGED fallbackResponse
       ELSE /\ searchPc' = "fallback"
            /\ fallbackResponse' = Pending
            /\ UNCHANGED searchResult
    /\ UNCHANGED <<prompt, response>>
    /\ UNCHANGED <<layoutVars, appVars>>

\* the service answers the fallback call
FallbackResponds(text) ==
    /\ searchPc = "fallback"
    /\ fallbackResponse = Pending
    /\ fallbackResponse' = Fulfilled(text, <<>>)
    /\ UNCHANGED <<searchPc, prompt, response, searchResult>>
    /\ UNCHANGED <<layoutVars, appVars>>

\* the fallback call fails
FallbackRejects ==
    /\ searchPc = "fallback"
    /\ fallbackResponse = Pending
    /\ fallbackResponse' = Rejected
    /\ UNCHANGED <<searchPc, prompt, response, searchResult>>
    /\ UNCHANGED <<layoutVars, appVars>>

\* the function goes on after the await of the fallback call: it returns
\* the fallback's text without sources, or rejects as the call did
FallbackSettled ==
    /\ searchPc = "fallback"
    /\ fallbackResponse.state \in {"fulfilled", "rejected"}
    /\ IF fallbackResponse.state = "fulfilled"
       THEN /\ searchPc' = "returned"
            /\ searchResult' = Result("value", FallbackText(fallbackResponse.text), <<>>)
       ELSE /\ searchPc' = "rejected"
            /\ UNCHANGED searchResult
    /\ UNCHANGED <<prompt, response, fallbackResponse>>
    /\ UNCHANGED <<layoutVars, appVars>>

NextSearch ==
    \/ \E p \in Prompts : SearchCall(p)
    \/ \E text \in Texts : \E groundingChunks \in ChunkArrays :
        SearchResponds(text, groundingChunks)
    \/ SearchRejects
    \/ SearchSettled
    \/ \E text \in Texts : FallbackResponds(text)
    \/ FallbackRejects
    \/ FallbackSettled

(***************************************************************************)
(* The App component (src/App.tsx): its React state and the asynchronous   *)
(* handlers that are in flight.  A handler runs from one await to the      *)
(* next in one step; the service call it awaits is a promise that the      *)
(* service fulfils, rejects or leaves pending.  The text fields            *)
(* (inputText, updateText, chatQuery) are under the user's control and are *)
(* not tracked: a control that needs text is used after typing some.       *)
(***************************************************************************)
\* the value null of processingStatus, error and previewImageData
Null == "null"

\* an ExtractionResult object; `present` is false for the null state alone,
\* an object without members has the empty list
ExtractionResult(ms, title, description, sources) ==
    [present |-> TRUE, members |-> ms, title |-> title,
     description |-> description, sources |-> sources]

\* extractionResult = null
NoExtraction ==
    [present |-> FALSE, members |-> <<>>, title |-> "",
     description |-> "", sources |-> <<>>]

\* the objects a call of the research service resolves with
ServiceResults ==
    { ExtractionResult(<<>>, "", "", <<>>),
      ExtractionResult(<<"a">>, "Title", "", <<"s">>) }

\* sources arrays are joined up to this length
MaxSources == 2

\* handlers in flight at one time
MaxTasks == 2

\* messages in the chat history
MaxChat == 2

\* handlers that begin to await a call in one behaviour
MaxStarted == 3

\* a || b on strings
OrElse(a, b) == IF a # "" THEN a ELSE b

\* a handler in flight: the call it awaits, the promise of that call
\* (pending, fulfilled, rejected) with the value it was fulfilled with, and
\* the locals the handler goes on with
Task(handler, awaiting, initialResult, originalName) ==
    [handler |-> handler, awaiting |-> awaiting, state |-> "pending",
     value |-> NoExtraction, long |-> FALSE,
     initialResult |-> initialResult, originalName |-> originalName]

\* the handlers in flight without the i-th
Remove(ts, i) == [k \in 1..(Len(ts) - 1) |-> IF k < i THEN ts[k] ELSE ts[k + 1]]

\* a chat message: its role, and whether text.length > 20
ChatMessage(role, long) == [role |-> role, long |-> long]

\* the state of the App component when it is first rendered
AppIdle ==
    /\ isProcessing = FALSE
    /\ showUpdateModal = FALSE
    /\ processingStatus = Null
    /\ extractionResult = NoExtraction
    /\ error = Null
    /\ activeTab = "upload"
    /\ chatHistory = <<>>
    /\ isChatOpen = FALSE
    /\ previewImageData = Null
    /\ showPreview = FALSE
    /\ tasks = <<>>
    /\ started = 0

(***************************************************************************)
(* The state machine.                                                      *)
(*   start  the component has rendered `members`, its effect has not run   *)
(*   roots  rootNodes.forEach(r => assignGen(r.id, 0)) is running          *)
(*   sweep  members.forEach(m => { if (!processed.has(m.id)) ... }) is     *)
(*          running                                                        *)
(*   done   the effect has returned                                        *)
(***************************************************************************)
RunsTracked == 3

\* `runs` after one more run has completed
OneMoreRun == IF runs < RunsTracked THEN runs + 1 ELSE runs

\* the state of a component that has rendered m for the first time
Mounted(m) ==
    /\ members = m
    /\ pc = "start"
    /\ generations = EmptyMap
    /\ processed = {}
    /\ stack = <<>>
    /\ sweepIdx = 1
    /\ calls = {}
    /\ genGroups = EmptyMap
    /\ sortedRows = EmptyMap
    /\ nodePositions = EmptyMap
    /\ dimensions = [width |-> 0, height |-> 0]
    /\ partnerLines = <<>>
    /\ parentPaths = <<>>
    /\ runs = 0
    /\ SearchIdle
    /\ AppIdle

\* a component mounted with a list of the first persons of `ids` that has at
\* most `budget` facts
MountedWith(ids, budget) ==
    \E n \in 0..Len(ids) :
        \E v \in SizeVectors(n, budget) :
            \E m \in ListsWith(Prefix(ids, n), v) : Mounted(m)

\* a component mounted with any list of at most MaxSize facts, or with the
\* persons of scenario 4 in any order
Init ==
    \/ MountedWith(PersonIds, MaxSize)
    \/ \E m \in Scenario4Inputs : Mounted(m)

\* the effect returns at once: nothing is mounted for an empty list
EffectEarlyReturn ==
    /\ UNCHANGED <<searchVars, appVars>>
    /\ pc = "start"
    /\ members = <<>>
    /\ pc' = "done"
    /\ generations' = EmptyMap
    /\ processed' = {}
    /\ calls' = {}
    /\ genGroups' = EmptyMap
    /\ sortedRows' = EmptyMap
    /\ runs' = OneMoreRun
    /\ UNCHANGED <<members, stack, sweepIdx, nodePositions, dimensions,
                   partnerLines, parentPaths>>

\* locals that outlive the run: what the previous run left
StaleLocals == [generations |-> generations, processed |-> processed]

\* the locals `generations` and `processed` of a run that begins
FreshLocals == [generations |-> EmptyMap, processed |-> {}]

\* the effect begins: both layers are cleared, the locals are created and
\* the calls for the root nodes are about to be made
EffectBegin ==
    /\ UNCHANGED <<searchVars, appVars>>
    /\ pc = "start"
    /\ members # <<>>
    /\ pc' = "roots"
    /\ nodePositions' = EmptyMap
    /\ partnerLines' = <<>>
    /\ parentPaths' = <<>>
    /\ generations' = FreshLocals.generations
    /\ processed' = FreshLocals.processed
    /\ calls' = {}
    /\ genGroups' = EmptyMap
    /\ sortedRows' = EmptyMap
    /\ stack' = CallsFor(IdsOf(RootNodes(members)), 0)
    /\ sweepIdx' = 1
    /\ members' = ListAfterReading(members)
    /\ UNCHANGED <<dimensions, runs>>

\* the engine's call stack is finite: no call is made with more than
\* MaxPending calls pending
MaxPending == 12

\* one call of assignGen: the first pending call
AssignGenCall ==
    /\ UNCHANGED <<searchVars, appVars>>
    /\ pc \in {"roots", "sweep"}
    /\ stack # <<>>
    /\ Len(stack) <= MaxPending
    /\ LET id == Head(stack)[1]
           gen == Head(stack)[2]
       IN /\ calls' = calls \cup {<<id, gen>>}
          /\ IF Skip(id, gen)
             THEN /\ stack' = Tail(stack)
                  /\ UNCHANGED <<generations, processed>>
             ELSE /\ generations' = Put(generations, id, Stored(id, gen))
                  /\ processed' = processed \cup {id}
                  /\ stack' = Recursion(members, id, gen) \o Tail(stack)
    /\ UNCHANGED <<members, pc, sweepIdx, genGroups, sortedRows, nodePositions,
                   dimensions, partnerLines, parentPaths, runs>>

\* all root nodes are done: the orphan sweep begins
RootsDone ==
    /\ UNCHANGED <<searchVars, appVars>>
    /\ pc = "roots"
    /\ stack = <<>>
    /\ pc' = "sweep"
    /\ sweepIdx' = 1
    /\ UNCHANGED <<members, generations, processed, stack, calls, genGroups,
                   sortedRows, nodePositions, dimensions, partnerLines,
                   parentPaths, runs>>

\* an iteration of the orphan sweep that starts from generation 1
SweepStepFromOne ==
    /\ UNCHANGED <<searchVars, appVars>>
    /\ pc = "sweep"
    /\ stack = <<>>
    /\ sweepIdx <= Len(members)
    /\ stack' = IF members[sweepIdx].id \in processed
                THEN <<>>
                ELSE << <<members[sweepIdx].id, 1>> >>
    /\ sweepIdx' = sweepIdx + 1
    /\ UNCHANGED <<members, pc, generations, processed, calls, genGroups,
                   sortedRows, nodePositions, dimensions, partnerLines,
                   parentPaths, runs>>

\* one iteration of the orphan sweep
SweepStep ==
    /\ UNCHANGED <<searchVars, appVars>>
    /\ pc = "sweep"
    /\ stack = <<>>
    /\ sweepIdx <= Len(members)
    /\ stack' = IF members[sweepIdx].id \in processed
                THEN <<>>
                ELSE << <<members[sweepIdx].id, 0>> >>
    /\ sweepIdx' = sweepIdx + 1
    /\ UNCHANGED <<members, pc, generations, processed, calls, genGroups,
                   sortedRows, nodePositions, dimensions, partnerLines,
                   parentPaths, runs>>

\* the rest of the effect: groups, rows, positions, canvas size, connectors
LayoutStep ==
    /\ UNCHANGED <<searchVars, appVars>>
    /\ pc = "sweep"
    /\ stack = <<>>
    /\ sweepIdx > Len(members)
    /\ pc' = "done"
    /\ genGroups' = GenGroups(members, generations)
    /\ sortedRows' = SortedRows(members, genGroups')
    /\ nodePositions' = NodePositions(sortedRows')
    /\ dimensions' = [width |-> MaxWidth(sortedRows'), height |-> MaxHeight(sortedRows')]
    /\ partnerLines' = PartnerLines(members, nodePositions')
    /\ parentPaths' = ParentPaths(members, nodePositions')
    /\ runs' = OneMoreRun
    /\ UNCHANGED <<members, generations, processed, stack, sweepIdx, calls>>

Effect ==
    \/ EffectEarlyReturn
    \/ EffectBegin
    \/ AssignGenCall
    \/ RootsDone
    \/ SweepStep
    \/ LayoutStep

Next == Effect

Spec == Init /\ [][Next]_vars

(***************************************************************************)
(* The effect is synchronous code: once begun it runs on until it returns. *)
(* The runs on the lists of at most MaxFairSize facts, under this          *)
(* fairness.                                                               *)
(***************************************************************************)
MaxFairSize == 3

InitFair == MountedWith(PersonIds, MaxFairSize)

FairSpec == InitFair /\ [][Next]_vars /\ WF_vars(Next)

(***************************************************************************)
(* A component that is rendered again and again: between two runs of the   *)
(* effect the parent passes another `members`.  The lists are those of the *)
(* persons RerenderIds with at most MaxRerenderSize facts.                 *)
(***************************************************************************)
RerenderIds == <<"a", "b">>
MaxRerenderSize == 2

\* the component renders the list m; for an empty list it renders the
\* placeholder instead of the two layers, which unmounts what was drawn
Rerender(m) ==
    /\ UNCHANGED <<searchVars, appVars>>
    /\ pc = "done"
    /\ members' = m
    /\ pc' = "start"
    /\ IF m = <<>>
       THEN /\ nodePositions' = EmptyMap
            /\ partnerLines' = <<>>
            /\ parentPaths' = <<>>
       ELSE UNCHANGED <<nodePositions, partnerLines, parentPaths>>
    /\ UNCHANGED <<generations, processed, stack, sweepIdx, calls, genGroups,
                   sortedRows, dimensions, runs>>

InitHistory == MountedWith(RerenderIds, MaxRerenderSize)

NextHistory ==
    \/ Effect
    \/ \E n \in 0..Len(RerenderIds) :
        \E v \in SizeVectors(n, MaxRerenderSize) :
            \E m \in ListsWith(Prefix(RerenderIds, n), v) : Rerender(m)

SpecHistory == InitHistory /\ [][NextHistory]_vars

(***************************************************************************)
(* The research service alone, in an application that shows no tree.  The  *)
(* function's own steps are taken once they can be (the JavaScript event   *)
(* loop runs the continuation of an await whose promise has settled); the  *)
(* service is not obliged to answer.                                       *)
(***************************************************************************)
InitSearch == Mounted(<<>>)

SpecSearch ==
    /\ InitSearch
    /\ [][NextSearch]_vars
    /\ WF_vars(SearchSettled)
    /\ WF_vars(FallbackSettled)

(***************************************************************************)
(* The handlers of App.  A control can be used when it is rendered and not *)
(* disabled.  Every handler that awaits a call is in `tasks` from its      *)
(* first await to its return.                                              *)
(***************************************************************************)
\* the calls that resolve with an ExtractionResult
DataCalls ==
    {"extractFamilyData", "discoverExtendedFamily", "researchDeathRecords",
     "mergeChatInfo", "updateFamilyData"}

\* a handler starts to await a call
Await(task) ==
    /\ Len(tasks) < MaxTasks
    /\ started < MaxStarted
    /\ started' = started + 1
    /\ tasks' = Append(tasks, task)

\* the handler tasks[i] returns
Return(i) == tasks' = Remove(tasks, i)

\* the call that tasks[i] awaits is settled
Settled(i) == tasks[i].state # "pending"

\* the number of chat requests in flight
ChatsInFlight ==
    Cardinality({i \in DOMAIN tasks : tasks[i].handler = "handleChatSubmit"})

\* the promise of the call that tasks[i] awaits is settled
Settle(i, state, value, long) ==
    /\ UNCHANGED <<layoutVars, searchVars, started>>
    /\ tasks[i].state = "pending"
    /\ tasks' = [tasks EXCEPT ![i].state = state, ![i].value = value,
                              ![i].long = long]
    /\ UNCHANGED <<isProcessing, showUpdateModal, processingStatus,
                   extractionResult, error, activeTab, chatHistory, isChatOpen,
                   previewImageData, showPreview>>

\* a call of the research service resolves with the object r
ServiceResolves(i, r) ==
    /\ i \in DOMAIN tasks
    /\ tasks[i].awaiting \in DataCalls
    /\ Settle(i, "fulfilled", r, FALSE)

\* askGemini resolves with a text of more than 20 characters, or a shorter one
AskGeminiResolves(i, long) ==
    /\ i \in DOMAIN tasks
    /\ tasks[i].awaiting = "askGemini"
    /\ Settle(i, "fulfilled", NoExtraction, long)

\* html2canvas resolves with a canvas
Html2canvasResolves(i) ==
    /\ i \in DOMAIN tasks
    /\ tasks[i].awaiting = "html2canvas"
    /\ Settle(i, "fulfilled", NoExtraction, FALSE)

\* the awaited call rejects
CallRejects(i) ==
    /\ i \in DOMAIN tasks
    /\ tasks[i].awaiting # "FileReader"
    /\ Settle(i, "rejected", NoExtraction, FALSE)

\* the Ask AI form is submitted
HandleChatSubmit ==
    /\ UNCHANGED <<layoutVars, searchVars>>
    /\ processingStatus # "chatting"
    /\ Len(chatHistory) + ChatsInFlight + 2 <= MaxChat
    /\ chatHistory' = Append(chatHistory, ChatMessage("user", FALSE))
    /\ isChatOpen' = TRUE
    /\ processingStatus' = "chatting"
    /\ Await(Task("handleChatSubmit", "askGemini", NoExtraction, ""))
    /\ UNCHANGED <<isProcessing, showUpdateModal, extractionResult, error,
                   activeTab, previewImageData, showPreview>>

\* handleChatSubmit goes on after askGemini: the answer, or the connection
\* error message (58 characters), is appended; then the finally block
HandleChatSubmitEnd(i) ==
    /\ i \in DOMAIN tasks
    /\ UNCHANGED <<layoutVars, searchVars, started>>
    /\ tasks[i].handler = "handleChatSubmit"
    /\ Settled(i)
    /\ chatHistory' = Append(chatHistory,
            ChatMessage("ai", IF tasks[i].state = "fulfilled"
                              THEN tasks[i].long ELSE TRUE))
    /\ processingStatus' = Null
    /\ Return(i)
    /\ UNCHANGED <<isProcessing, showUpdateModal, extractionResult, error,
                   activeTab, isChatOpen, previewImageData, showPreview>>

\* "Update Tree with Info" under an answer of more than 20 characters
HandleMergeChatResult ==
    /\ UNCHANGED <<layoutVars, searchVars>>
    /\ isChatOpen
    /\ \E k \in DOMAIN chatHistory :
            chatHistory[k].role = "ai" /\ chatHistory[k].long
    /\ isProcessing' = TRUE
    /\ processingStatus' = "merging"
    /\ Await(Task("handleMergeChatResult", "mergeChatInfo", NoExtraction, ""))
    /\ UNCHANGED <<showUpdateModal, extractionResult, error, activeTab,
                   chatHistory, isChatOpen, previewImageData, showPreview>>

\* handleMergeChatResult goes on after mergeChatInfo
HandleMergeChatResultEnd(i) ==
    /\ i \in DOMAIN tasks
    /\ UNCHANGED <<layoutVars, searchVars, started>>
    /\ tasks[i].handler = "handleMergeChatResult"
    /\ Settled(i)
    /\ IF tasks[i].state = "fulfilled"
       THEN /\ extractionResult' = tasks[i].value
            /\ activeTab' = "tree"
            /\ UNCHANGED error
       ELSE /\ error' = "Failed to integrate information into the tree."
            /\ UNCHANGED <<extractionResult, activeTab>>
    /\ isProcessing' = FALSE
    /\ processingStatus' = Null
    /\ Return(i)
    /\ UNCHANGED <<showUpdateModal, chatHistory, isChatOpen, previewImageData,
                   showPreview>>

\* processLineage up to its await: an initial result without members is
\* shown as it is, any other is researched
ProcessLineage(i) ==
    IF tasks[i].value.members = <<>>
    THEN /\ extractionResult' = tasks[i].value
         /\ activeTab' = "tree"
         /\ isProcessing' = FALSE
         /\ processingStatus' = Null
         /\ Return(i)
    ELSE /\ processingStatus' = "researching"
         /\ tasks' = [tasks EXCEPT ![i] =
                Task(tasks[i].handler, "discoverExtendedFamily",
                     tasks[i].value, tasks[i].originalName)]
         /\ UNCHANGED <<extractionResult, activeTab, isProcessing>>

\* finalResult of processLineage
FinalResult(initialResult, expandedResult, originalName) ==
    ExtractionResult(
        expandedResult.members,
        OrElse(expandedResult.title,
               OrElse(initialResult.title, originalName \o " Lineage")),
        OrElse(expandedResult.description,
               OrElse(initialResult.description,
                      "Historical records mining result")),
        initialResult.sources \o expandedResult.sources)

\* a processLineage that reports the failed research
ProcessLineageEndWithError(i) ==
    /\ i \in DOMAIN tasks
    /\ UNCHANGED <<layoutVars, searchVars, started>>
    /\ tasks[i].handler \in {"handleInitialSearch", "processFile"}
    /\ tasks[i].awaiting = "discoverExtendedFamily"
    /\ Settled(i)
    /\ IF tasks[i].state = "fulfilled"
       THEN /\ extractionResult' = FinalResult(tasks[i].initialResult,
                        tasks[i].value, tasks[i].originalName)
            /\ UNCHANGED error
       ELSE /\ extractionResult' = tasks[i].initialResult
            /\ error' = "Search timed out."
    /\ activeTab' = "tree"
    /\ isProcessing' = FALSE
    /\ processingStatus' = Null
    /\ Return(i)
    /\ UNCHANGED <<showUpdateModal, chatHistory, isChatOpen,
                   previewImageData, showPreview>>

\* processLineage goes on after discoverExtendedFamily: the expanded result,
\* or on failure the initial one, is shown; then the finally block
ProcessLineageEnd(i) ==
    /\ i \in DOMAIN tasks
    /\ UNCHANGED <<layoutVars, searchVars, started>>
    /\ tasks[i].handler \in {"handleInitialSearch", "processFile"}
    /\ tasks[i].awaiting = "discoverExtendedFamily"
    /\ Settled(i)
    /\ extractionResult' =
            IF tasks[i].state = "fulfilled"
            THEN FinalResult(tasks[i].initialResult, tasks[i].value,
                             tasks[i].originalName)
            ELSE tasks[i].initialResult
    /\ activeTab' = "tree"
    /\ isProcessing' = FALSE
    /\ processingStatus' = Null
    /\ Return(i)
    /\ UNCHANGED <<showUpdateModal, error, chatHistory, isChatOpen,
                   previewImageData, showPreview>>

\* "Trace Heirs" or "Trace Ancestors"
HandleInitialSearch ==
    /\ UNCHANGED <<layoutVars, searchVars>>
    /\ activeTab = "upload"
    /\ ~isProcessing
    /\ isProcessing' = TRUE
    /\ processingStatus' = "analyzing"
    /\ error' = Null
    /\ Await(Task("handleInitialSearch", "extractFamilyData", NoExtraction,
                  "name"))
    /\ UNCHANGED <<showUpdateModal, extractionResult, activeTab, chatHistory,
                   isChatOpen, previewImageData, showPreview>>

\* handleInitialSearch goes on after extractFamilyData
HandleInitialSearchExtracted(i) ==
    /\ i \in DOMAIN tasks
    /\ UNCHANGED <<layoutVars, searchVars, started>>
    /\ tasks[i].handler = "handleInitialSearch"
    /\ tasks[i].awaiting = "extractFamilyData"
    /\ Settled(i)
    /\ IF tasks[i].state = "rejected"
       THEN /\ error' = "Search timed out. This can happen for very common names. Try adding more detail like \"John Smith 1920 London\"."
            /\ isProcessing' = FALSE
            /\ processingStatus' = Null
            /\ Return(i)
            /\ UNCHANGED <<extractionResult, activeTab>>
       ELSE IF tasks[i].value.members = <<>>
       THEN /\ error' = "We couldn't find verifiable historical records for \""
                        \o tasks[i].originalName
                        \o "\". Please check the spelling or provide a birth year/location."
            /\ isProcessing' = FALSE
            /\ processingStatus' = Null
            /\ Return(i)
            /\ UNCHANGED <<extractionResult, activeTab>>
       ELSE /\ ProcessLineage(i)
            /\ UNCHANGED error
    /\ UNCHANGED <<showUpdateModal, chatHistory, isChatOpen, previewImageData,
                   showPreview>>

\* the kinds of file: application/pdf or image/*, and any other
FileKinds == {"image", "text"}

\* a file is dropped or chosen
ProcessFile(kind) ==
    /\ UNCHANGED <<layoutVars, searchVars>>
    /\ activeTab = "upload"
    /\ isProcessing' = TRUE
    /\ processingStatus' = "analyzing"
    /\ error' = Null
    /\ Await(Task("processFile", "FileReader", NoExtraction,
                  IF kind = "image" THEN "file.name" ELSE "Subject"))
    /\ UNCHANGED <<showUpdateModal, extractionResult, activeTab, chatHistory,
                   isChatOpen, previewImageData, showPreview>>

\* reader.onload: the handler calls extractFamilyData
FileReaderLoads(i) ==
    /\ i \in DOMAIN tasks
    /\ UNCHANGED <<layoutVars, searchVars, started>>
    /\ tasks[i].awaiting = "FileReader"
    /\ tasks' = [tasks EXCEPT ![i].awaiting = "extractFamilyData"]
    /\ UNCHANGED <<isProcessing, showUpdateModal, processingStatus,
                   extractionResult, error, activeTab, chatHistory, isChatOpen,
                   previewImageData, showPreview>>

\* reader.onload goes on after extractFamilyData
ProcessFileExtracted(i) ==
    /\ i \in DOMAIN tasks
    /\ UNCHANGED <<layoutVars, searchVars, started>>
    /\ tasks[i].handler = "processFile"
    /\ tasks[i].awaiting = "extractFamilyData"
    /\ Settled(i)
    /\ IF tasks[i].state = "rejected"
       THEN /\ error' = IF tasks[i].originalName = "Subject"
                        THEN "Document analysis failed."
                        ELSE "We couldn't extract lineage from this file. Ensure it contains clear names and relationships."
            /\ isProcessing' = FALSE
            /\ Return(i)
            /\ UNCHANGED <<processingStatus, extractionResult, activeTab>>
       ELSE /\ ProcessLineage(i)
            /\ UNCHANGED error
    /\ UNCHANGED <<showUpdateModal, chatHistory, isChatOpen, previewImageData,
                   showPreview>>

\* "Ancestry" in the panel of a selected member of the tree; without a
\* result, or without members, the handler returns at once
HandleResearchAncestors ==
    /\ UNCHANGED <<layoutVars, searchVars>>
    /\ activeTab = "tree"
    /\ extractionResult.present
    /\ extractionResult.members # <<>>
    /\ isProcessing' = TRUE
    /\ processingStatus' = "researching"
    /\ error' = Null
    /\ Await(Task("handleResearchAncestors", "discoverExtendedFamily",
                  NoExtraction, ""))
    /\ UNCHANGED <<showUpdateModal, extractionResult, activeTab, chatHistory,
                   isChatOpen, previewImageData, showPreview>>

\* a failed ancestor research that goes back to the search tab
HandleResearchAncestorsEndOnSearchTab(i) ==
    /\ i \in DOMAIN tasks
    /\ UNCHANGED <<layoutVars, searchVars, started>>
    /\ tasks[i].handler = "handleResearchAncestors"
    /\ Settled(i)
    /\ Len(extractionResult.sources) + Len(tasks[i].value.sources) <= MaxSources
    /\ IF tasks[i].state = "fulfilled"
       THEN /\ extractionResult' = ExtractionResult(
                    tasks[i].value.members,
                    OrElse(extractionResult.title, tasks[i].value.title),
                    tasks[i].value.description,
                    extractionResult.sources \o tasks[i].value.sources)
            /\ activeTab' = "tree"
            /\ UNCHANGED error
       ELSE /\ error' = "No deeper ancestors were found in public archives for this profile."
            /\ activeTab' = "upload"
            /\ UNCHANGED extractionResult
    /\ isProcessing' = FALSE
    /\ processingStatus' = Null
    /\ Return(i)
    /\ UNCHANGED <<showUpdateModal, chatHistory, isChatOpen, previewImageData,
                   showPreview>>

\* handleResearchAncestors goes on after discoverExtendedFamily
HandleResearchAncestorsEnd(i) ==
    /\ i \in DOMAIN tasks
    /\ UNCHANGED <<layoutVars, searchVars, started>>
    /\ tasks[i].handler = "handleResearchAncestors"
    /\ Settled(i)
    /\ Len(extractionResult.sources) + Len(tasks[i].value.sources) <= MaxSources
    /\ IF tasks[i].state = "fulfilled"
       THEN /\ extractionResult' = ExtractionResult(
                    tasks[i].value.members,
                    OrElse(extractionResult.title, tasks[i].value.title),
                    tasks[i].value.description,
                    extractionResult.sources \o tasks[i].value.sources)
            /\ activeTab' = "tree"
            /\ UNCHANGED error
       ELSE /\ error' = "No deeper ancestors were found in public archives for this profile."
            /\ UNCHANGED <<extractionResult, activeTab>>
    /\ isProcessing' = FALSE
    /\ processingStatus' = Null
    /\ Return(i)
    /\ UNCHANGED <<showUpdateModal, chatHistory, isChatOpen, previewImageData,
                   showPreview>>

\* "Vital Records"
HandleDeathSearch ==
    /\ UNCHANGED <<layoutVars, searchVars>>
    /\ activeTab = "upload"
    /\ ~isProcessing
    /\ isProcessing' = TRUE
    /\ processingStatus' = "researching"
    /\ error' = Null
    /\ Await(Task("handleDeathSearch", "researchDeathRecords", NoExtraction, ""))
    /\ UNCHANGED <<showUpdateModal, extractionResult, activeTab, chatHistory,
                   isChatOpen, previewImageData, showPreview>>

\* handleDeathSearch goes on after researchDeathRecords
HandleDeathSearchEnd(i) ==
    /\ i \in DOMAIN tasks
    /\ UNCHANGED <<layoutVars, searchVars, started>>
    /\ tasks[i].handler = "handleDeathSearch"
    /\ Settled(i)
    /\ IF tasks[i].state = "rejected"
       THEN /\ error' = "Record search failed. Our archive connection might be experiencing high traffic."
            /\ UNCHANGED <<extractionResult, activeTab>>
       ELSE IF tasks[i].value.members = <<>>
       THEN /\ error' = "Vital death records search returned no definitive matches. Ensure the person is deceased and spellings are correct."
            /\ UNCHANGED <<extractionResult, activeTab>>
       ELSE /\ extractionResult' = tasks[i].value
            /\ activeTab' = "tree"
            /\ UNCHANGED error
    /\ isProcessing' = FALSE
    /\ processingStatus' = Null
    /\ Return(i)
    /\ UNCHANGED <<showUpdateModal, chatHistory, isChatOpen, previewImageData,
                   showPreview>>

\* "Edit Records", and "Cancel" in the modal it opens
SetShowUpdateModal(show) ==
    /\ UNCHANGED <<layoutVars, searchVars, started>>
    /\ IF show THEN activeTab # "upload" ELSE showUpdateModal
    /\ showUpdateModal' = show
    /\ UNCHANGED <<isProcessing, processingStatus, extractionResult, error,
                   activeTab, chatHistory, isChatOpen, previewImageData,
                   showPreview, tasks>>

\* "Apply Changes"
HandleUpdateSubmit ==
    /\ UNCHANGED <<layoutVars, searchVars>>
    /\ showUpdateModal
    /\ extractionResult.present
    /\ isProcessing' = TRUE
    /\ processingStatus' = "updating"
    /\ error' = Null
    /\ Await(Task("handleUpdateSubmit", "updateFamilyData", NoExtraction, ""))
    /\ UNCHANGED <<showUpdateModal, extractionResult, activeTab, chatHistory,
                   isChatOpen, previewImageData, showPreview>>

\* handleUpdateSubmit goes on after updateFamilyData
HandleUpdateSubmitEnd(i) ==
    /\ i \in DOMAIN tasks
    /\ UNCHANGED <<layoutVars, searchVars, started>>
    /\ tasks[i].handler = "handleUpdateSubmit"
    /\ Settled(i)
    /\ IF tasks[i].state = "fulfilled"
       THEN /\ extractionResult' = tasks[i].value
            /\ showUpdateModal' = FALSE
            /\ UNCHANGED error
       ELSE /\ error' = "Failed to update the tree structure."
            /\ UNCHANGED <<extractionResult, showUpdateModal>>
    /\ isProcessing' = FALSE
    /\ processingStatus' = Null
    /\ Return(i)
    /\ UNCHANGED <<activeTab, chatHistory, isChatOpen, previewImageData,
                   showPreview>>

\* "Export PDF": the capture area exists on the tree and list tabs
GeneratePDFPreview ==
    /\ UNCHANGED <<layoutVars, searchVars>>
    /\ activeTab # "upload"
    /\ ~isProcessing
    /\ isProcessing' = TRUE
    /\ processingStatus' = "previewing"
    /\ Await(Task("generatePDFPreview", "html2canvas", NoExtraction, ""))
    /\ UNCHANGED <<showUpdateModal, extractionResult, error, activeTab,
                   chatHistory, isChatOpen, previewImageData, showPreview>>

\* generatePDFPreview goes on after html2canvas
GeneratePDFPreviewEnd(i) ==
    /\ i \in DOMAIN tasks
    /\ UNCHANGED <<layoutVars, searchVars, started>>
    /\ tasks[i].handler = "generatePDFPreview"
    /\ Settled(i)
    /\ IF tasks[i].state = "fulfilled"
       THEN /\ previewImageData' = "image"
            /\ showPreview' = TRUE
            /\ UNCHANGED error
       ELSE /\ error' = "High-resolution record capture failed."
            /\ UNCHANGED <<previewImageData, showPreview>>
    /\ isProcessing' = FALSE
    /\ processingStatus' = Null
    /\ Return(i)
    /\ UNCHANGED <<showUpdateModal, extractionResult, activeTab, chatHistory,
                   isChatOpen>>

\* the close button and "Cancel" of the preview
ClosePreview ==
    /\ UNCHANGED <<layoutVars, searchVars, started>>
    /\ showPreview
    /\ previewImageData # Null
    /\ showPreview' = FALSE
    /\ UNCHANGED <<isProcessing, showUpdateModal, processingStatus,
                   extractionResult, error, activeTab, chatHistory, isChatOpen,
                   previewImageData, tasks>>

\* "Download PDF Record": the handler awaits nothing; isExporting is set and
\* reset within it
FinalizeDownload(saved) ==
    /\ UNCHANGED <<layoutVars, searchVars, started>>
    /\ showPreview
    /\ previewImageData # Null
    /\ IF saved
       THEN showPreview' = FALSE /\ UNCHANGED error
       ELSE error' = "Export failed." /\ UNCHANGED showPreview
    /\ UNCHANGED <<isProcessing, showUpdateModal, processingStatus,
                   extractionResult, activeTab, chatHistory, isChatOpen,
                   previewImageData, tasks>>

\* the tabs of the header: Tree and List are disabled without a result
SetActiveTab(tab) ==
    /\ UNCHANGED <<layoutVars, searchVars, started>>
    /\ tab # "upload" => extractionResult.present
    /\ activeTab' = tab
    /\ UNCHANGED <<isProcessing, showUpdateModal, processingStatus,
                   extractionResult, error, chatHistory, isChatOpen,
                   previewImageData, showPreview, tasks>>

\* a start over that stays on the tab
StartOverOnTab ==
    /\ UNCHANGED <<layoutVars, searchVars, started>>
    /\ extractionResult' = NoExtraction
    /\ chatHistory' = <<>>
    /\ UNCHANGED <<isProcessing, showUpdateModal, processingStatus, error,
                   activeTab, isChatOpen, previewImageData, showPreview, tasks>>

\* "Start over?", confirmed
StartOver ==
    /\ UNCHANGED <<layoutVars, searchVars, started>>
    /\ extractionResult' = NoExtraction
    /\ activeTab' = "upload"
    /\ chatHistory' = <<>>
    /\ UNCHANGED <<isProcessing, showUpdateModal, processingStatus, error,
                   isChatOpen, previewImageData, showPreview, tasks>>

NextApp ==
    \/ HandleChatSubmit
    \/ HandleMergeChatResult
    \/ HandleInitialSearch
    \/ \E kind \in FileKinds : ProcessFile(kind)
    \/ HandleResearchAncestors
    \/ HandleDeathSearch
    \/ \E show \in BOOLEAN : SetShowUpdateModal(show)
    \/ HandleUpdateSubmit
    \/ GeneratePDFPreview
    \/ ClosePreview
    \/ \E saved \in BOOLEAN : FinalizeDownload(saved)
    \/ \E tab \in {"upload", "tree", "list"} : SetActiveTab(tab)
    \/ StartOver
    \/ \E i \in 1..MaxTasks :
        \/ \E r \in ServiceResults : ServiceResolves(i, r)
        \/ \E long \in BOOLEAN : AskGeminiResolves(i, long)
        \/ Html2canvasResolves(i)
        \/ CallRejects(i)
        \/ FileReaderLoads(i)
        \/ HandleChatSubmitEnd(i)
        \/ HandleMergeChatResultEnd(i)
        \/ HandleInitialSearchExtracted(i)
        \/ ProcessFileExtracted(i)
        \/ ProcessLineageEnd(i)
        \/ HandleResearchAncestorsEnd(i)
        \/ HandleDeathSearchEnd(i)
        \/ HandleUpdateSubmitEnd(i)
        \/ GeneratePDFPreviewEnd(i)

\* the application from its first render, showing no tree
InitApp == Mounted(<<>>)

SpecApp == InitApp /\ [][NextApp]_vars

(***************************************************************************)
(* The effect as a function of the list alone: what one run computes in a  *)
(* component that has just been mounted.  assignGen is evaluated here by   *)
(* recursion, as the code writes it; st holds `generations` and            *)
(* `processed`.                                                            *)
(***************************************************************************)
RECURSIVE AssignGenIn(_, _, _, _)
RECURSIVE ForEachCall(_, _, _)

\* assignGen(id, gen) run to its end from the locals st
AssignGenIn(m, st, id, gen) ==
    IF id = "" \/ id \in st.processed THEN st
    ELSE ForEachCall(m,
            [generations |-> Put(st.generations, id, gen),
             processed |-> st.processed \cup {id}],
            Recursion(m, id, gen))

\* the calls cs made one after the other from the locals st
ForEachCall(m, st, cs) ==
    IF cs = <<>> THEN st
    ELSE ForEachCall(m, AssignGenIn(m, st, Head(cs)[1], Head(cs)[2]), Tail(cs))

\* the orphan sweep from index i on
RECURSIVE SweepFrom(_, _, _)
SweepFrom(m, st, i) ==
    IF i > Len(m) THEN st
    ELSE SweepFrom(m,
            IF m[i].id \in st.processed THEN st ELSE AssignGenIn(m, st, m[i].id, 0),
            i + 1)

\* the result of one run on the list m in a freshly mounted component
FreshRun(m) ==
    IF m = <<>>
    THEN [generations |-> EmptyMap, processed |-> {}, nodePositions |-> EmptyMap,
          dimensions |-> [width |-> 0, height |-> 0]]
    ELSE LET st == SweepFrom(m,
                      ForEachCall(m, [generations |-> EmptyMap, processed |-> {}],
                                  CallsFor(IdsOf(RootNodes(m)), 0)),
                      1)
             rows == SortedRows(m, GenGroups(m, st.generations))
         IN [generations |-> st.generations, processed |-> st.processed,
             nodePositions |-> NodePositions(rows),
             dimensions |-> [width |-> MaxWidth(rows), height |-> MaxHeight(rows)]]

(***************************************************************************)
(* Notions the claims are stated with.                                     *)
(***************************************************************************)
Done == pc = "done"

\* every child of the list is at least one generation below each of its
\* parents of the list
Monotone(m, gens) ==
    \A i, j \in DOMAIN m :
        Includes(m[j].parents, m[i].id) => gens[m[j].id] >= gens[m[i].id] + 1

\* every person of the list has the generation of each of its partners of
\* the list
CoGenerational(m, gens) ==
    \A i, j \in DOMAIN m :
        Includes(m[i].partners, m[j].id) => gens[m[i].id] = gens[m[j].id]

\* some generation map puts every child below its parents and every person
\* beside its partners: the relations of the list do not contradict each
\* other (no person is its own ancestor, no one is partner of an ancestor)
Consistent(m) ==
    \E gens \in [MemberIds(m) -> 0..Len(m)] : Monotone(m, gens) /\ CoGenerational(m, gens)

\* every id in a parents or partners array is the id of a person of the
\* list, and never the id of the person itself
Resolved(m) ==
    \A i \in DOMAIN m :
        Range(m[i].parents) \cup Range(m[i].partners) \subseteq MemberIds(m) \ {m[i].id}

\* every partner link is recorded on both sides
MutualPartners(m) ==
    \A i, j \in DOMAIN m :
        Includes(m[i].partners, m[j].id) => Includes(m[j].partners, m[i].id)

\* a list as the data model expects it
WellFormed(m) == Resolved(m) /\ MutualPartners(m) /\ Consistent(m)

\* the generation values assignGen was called with for id
ReachedWith(id) == {c[2] : c \in {d \in calls : d[1] = id}}

NoRootCandidate(m) == \A i \in DOMAIN m : m[i].parents # <<>>

\* two persons of the list are each other's parent
ParentCycle(m) ==
    \E i, j \in DOMAIN m :
        i # j /\ Includes(m[i].parents, m[j].id) /\ Includes(m[j].parents, m[i].id)

(***************************************************************************)
(* C1.  Generation monotonicity: after generation assignment every child   *)
(* of the list is at least one generation below each of its parents of the *)
(* list.  Stated for the well-formed lists only: the ids resolve, the      *)
(* partner links are mutual and the relations do not contradict each       *)
(* other, so that the property can hold at all.                            *)
(***************************************************************************)
GenerationMonotonicity ==
    (Done /\ members # <<>> /\ WellFormed(members)) => Monotone(members, generations)

(***************************************************************************)
(* C2.  Partner co-generation: after generation assignment every person of *)
(* the list has the same generation as each person of the list that its    *)
(* partners array names, whether or not the link is mutual.  Stated for    *)
(* the lists whose ids resolve and whose relations do not contradict each  *)
(* other, so that the property can hold at all.                            *)
(***************************************************************************)
PartnerCoGeneration ==
    (Done /\ members # <<>> /\ Resolved(members) /\ Consistent(members)) =>
        CoGenerational(members, generations)

(***************************************************************************)
(* C3.  Conflict rule: the final generation of a person is the maximum of  *)
(* all the generation values assignGen was called with for it.  Stated for *)
(* the well-formed lists only.                                             *)
(***************************************************************************)
ConflictRuleKeepsMaximum ==
    (Done /\ members # <<>> /\ WellFormed(members)) =>
        \A id \in MemberIds(members) : generations[id] = SetMax(ReachedWith(id))

(***************************************************************************)
(* C4.  Termination: every run of the effect reaches its end, for every    *)
(* list: also when a person is its own ancestor or its own parent or       *)
(* partner, when partners name each other, and when no person is a root    *)
(* candidate.                                                              *)
(***************************************************************************)
Termination == <>Done

\* a run has ended on a list of three without a root candidate, in which
\* two persons are each other's parent
TerminationWitness ==
    Done /\ Len(members) = 3 /\ NoRootCandidate(members) /\ ParentCycle(members)

(***************************************************************************)
(* C5.  Totality and no duplicate placement: after a run on a non-empty    *)
(* list every person of the list has a generation, is an entry of exactly  *)
(* one generation bucket, exactly once, and has a position; nothing else   *)
(* has a position.                                                         *)
(***************************************************************************)
BucketEntries(id) ==
    {e \in UNION {{<<g, i>> : i \in DOMAIN genGroups[g]} : g \in DOMAIN genGroups} :
        genGroups[e[1]][e[2]] = id}

TotalityAndSinglePlacement ==
    (Done /\ members # <<>>) =>
        /\ \A id \in MemberIds(members) :
            /\ id \in DOMAIN generations
            /\ Cardinality(BucketEntries(id)) = 1
            /\ id \in DOMAIN nodePositions
        /\ DOMAIN nodePositions = MemberIds(members)

\* a run has ended on a list with a dangling partner id, a one-sided
\* partner link and two persons that are each other's parent
TotalityWitness ==
    /\ Done
    /\ ParentCycle(members)
    /\ \E i \in DOMAIN members :
        \E q \in Range(members[i].partners) : q \notin MemberIds(members)
    /\ \E i, j \in DOMAIN members :
        /\ i # j
        /\ Includes(members[i].partners, members[j].id)
        /\ ~Includes(members[j].partners, members[i].id)

(***************************************************************************)
(* C6.  Row centering: for every generation row, the x of its leftmost     *)
(* person plus the x of its rightmost person plus nodeWidth is the same    *)
(* value for all generations.  Stated for the well-formed lists only.      *)
(***************************************************************************)
RowSpan(g) ==
    LET xs == {nodePositions[id].x : id \in Range(genGroups[g])}
    IN SetMin(xs) + SetMax(xs) + nodeWidth

RowsShareMidline ==
    (Done /\ members # <<>> /\ WellFormed(members)) =>
        \A g, h \in DOMAIN genGroups : RowSpan(g) = RowSpan(h)

(***************************************************************************)
(* C7.  Bounding-box sufficiency: after a run on a non-empty list every    *)
(* positioned person lies inside the canvas the run reports: 0 <= x,       *)
(* 0 <= y, x + nodeWidth <= width and y + nodeHeight <= height.            *)
(***************************************************************************)
BoundingBoxSufficient ==
    (Done /\ members # <<>>) =>
        \A id \in DOMAIN nodePositions :
            /\ 0 <= nodePositions[id].x
            /\ 0 <= nodePositions[id].y
            /\ nodePositions[id].x + nodeWidth <= dimensions.width
            /\ nodePositions[id].y + nodeHeight <= dimensions.height

\* a run has ended with a row that is longer than a row below it, and a
\* node whose right edge is one padding from the right edge of the canvas
BoundingBoxWitness ==
    /\ Done
    /\ \E g, h \in DOMAIN sortedRows : g < h /\ Len(sortedRows[g]) > Len(sortedRows[h])
    /\ \E id \in DOMAIN nodePositions :
        nodePositions[id].x + nodeWidth + padding = dimensions.width

(***************************************************************************)
(* C8.  Empty input: whenever the effect has run on an empty list, also    *)
(* after runs on non-empty lists, no node has a position and the canvas    *)
(* size is zero or padding only.                                           *)
(***************************************************************************)
MinimalSizes == {0, padding, 2 * padding}

EmptyInputIsMinimal ==
    (Done /\ members = <<>>) =>
        /\ nodePositions = EmptyMap
        /\ dimensions.width \in MinimalSizes
        /\ dimensions.height \in MinimalSizes

(***************************************************************************)
(* C9.  Determinism and history independence: whatever lists were laid out *)
(* before, a run leaves the generations, the processed set and the         *)
(* positions that a run on the same list leaves in a component that has    *)
(* just been mounted; so two runs on the same list agree.                  *)
(***************************************************************************)
HistoryIndependence ==
    Done =>
        /\ generations = FreshRun(members).generations
        /\ processed = FreshRun(members).processed
        /\ nodePositions = FreshRun(members).nodePositions

\* the third run or a later one has ended, on a list of two persons in two
\* generations
HistoryWitness ==
    /\ Done
    /\ runs = RunsTracked
    /\ Len(members) = 2
    /\ generations[members[1].id] # generations[members[2].id]

RowYCountsNodeHeight ==
    (Done /\ members # <<>>) =>
        \A id \in MemberIds(members) :
            nodePositions[id].y = padding + generations[id] * (nodeHeight + verticalGap)

(***************************************************************************)
(* C11, amended.  Row y-coordinate: after a run every person of generation *)
(* g has y = padding + g * verticalGap, the same for all persons of that   *)
(* generation, however many persons the row has.                           *)
(***************************************************************************)
RowYIsRowPitch ==
    (Done /\ members # <<>>) =>
        \A id \in MemberIds(members) :
            nodePositions[id].y = padding + generations[id] * verticalGap

\* a run has ended with rows of different lengths, one of them of a
\* generation below the first and with more than one person
RowYWitness ==
    /\ Done
    /\ \E g, h \in DOMAIN genGroups :
        /\ g >= 1
        /\ Len(genGroups[g]) >= 2
        /\ Len(genGroups[h]) # Len(genGroups[g])

(***************************************************************************)
(* C12.  Male-left pairing: whenever row ordering pairs a member with a    *)
(* partner of its row, the two are appended side by side, the partner      *)
(* first when the member is female and the partner male, the member first  *)
(* in every other case.  So for the list [P1 female, P2 male] of mutual    *)
(* partners the row is P2, P1.                                             *)
(***************************************************************************)
MaleLeftExample ==
    << FamilyMember("a", "female", <<>>, <<"b">>),
       FamilyMember("b", "male", <<>>, <<"a">>) >>

MaleLeftPairing ==
    (Done /\ members # <<>>) =>
        /\ \A g \in DOMAIN genGroups :
            \A e \in RowPairs(members, genGroups[g]) :
                LET member == FindMember(members, e.member)
                    partner == FindMember(members, e.partner)
                    row == sortedRows[g]
                IN IF member.gender = "female" /\ partner.gender = "male"
                   THEN row[e.at] = e.partner /\ row[e.at + 1] = e.member
                   ELSE row[e.at] = e.member /\ row[e.at + 1] = e.partner
        /\ members = MaleLeftExample => sortedRows[0] = <<"b", "a">>

\* a run has ended on the example, and the male partner is placed first
MaleLeftWitness ==
    /\ Done
    /\ members = MaleLeftExample
    /\ sortedRows[0][1] = "b"

(***************************************************************************)
(* C13.  Partner connector count: after a run, for every two persons of    *)
(* the list of which at least one lists the other as partner, exactly one  *)
(* partner line is drawn between the two.  Stated for the lists whose ids  *)
(* resolve and whose relations do not contradict each other.               *)
(***************************************************************************)
LinesBetween(a, b) ==
    {k \in DOMAIN partnerLines : {partnerLines[k].from, partnerLines[k].to} = {a, b}}

OneLinePerPartnerPair ==
    (Done /\ members # <<>> /\ Resolved(members) /\ Consistent(members)) =>
        \A i, j \in DOMAIN members :
            (i < j /\ (\/ Includes(members[i].partners, members[j].id)
                       \/ Includes(members[j].partners, members[i].id))) =>
                Cardinality(LinesBetween(members[i].id, members[j].id)) = 1

(***************************************************************************)
(* C14.  Partner connector geometry: every partner line starts at the      *)
(* right edge of the one of its two persons that is placed further left    *)
(* and ends at the left edge of the one placed further right, so its start *)
(* x is not greater than its end x.  Stated for the well-formed lists.     *)
(***************************************************************************)
LineRunsLeftToRight(line) ==
    LET ends == {line.from, line.to}
        left == CHOOSE id \in ends : \A other \in ends :
                    nodePositions[id].x <= nodePositions[other].x
        right == CHOOSE id \in ends : \A other \in ends :
                    nodePositions[other].x <= nodePositions[id].x
    IN /\ line.x1 = nodePositions[left].x + nodeWidth
       /\ line.x2 = nodePositions[right].x
       /\ line.x1 <= line.x2

ConnectorsRunLeftToRight ==
    (Done /\ members # <<>> /\ WellFormed(members)) =>
        \A k \in DOMAIN partnerLines : LineRunsLeftToRight(partnerLines[k])

(***************************************************************************)
(* C15.  Parent-child connector: after a run, for every entry of a         *)
(* person's parents that is the id of a positioned person, exactly one     *)
(* path is drawn, through the bottom centre of the parent, the two points  *)
(* at the height halfway between the parent's bottom and the child's top,  *)
(* and the top centre of the child; no path is drawn for an entry that is  *)
(* not the id of a positioned person, and no other path is drawn.          *)
(***************************************************************************)
PathsBetween(parentId, childId) ==
    {k \in DOMAIN parentPaths :
        parentPaths[k].parent = parentId /\ parentPaths[k].child = childId}

PathIsElbow(path) ==
    LET p == nodePositions[path.parent]
        c == nodePositions[path.child]
    IN /\ Len(path.points) = 4
       /\ path.points[1] = <<p.x + nodeWidth \div 2, p.y + nodeHeight>>
       /\ path.points[2][1] = p.x + nodeWidth \div 2
       /\ path.points[3][1] = c.x + nodeWidth \div 2
       /\ path.points[2][2] = path.points[3][2]
       /\ 2 * path.points[2][2] = (p.y + nodeHeight) + c.y
       /\ path.points[4] = <<c.x + nodeWidth \div 2, c.y>>

ParentPathsAreElbows ==
    (Done /\ members # <<>>) =>
        /\ \A i \in DOMAIN members :
            \A parentId \in Range(members[i].parents) :
                IF parentId \in DOMAIN nodePositions
                THEN /\ Cardinality(PathsBetween(parentId, members[i].id)) = 1
                     /\ \A k \in PathsBetween(parentId, members[i].id) :
                            PathIsElbow(parentPaths[k])
                ELSE \A k \in DOMAIN parentPaths : parentPaths[k].parent # parentId
        /\ \A k \in DOMAIN parentPaths :
            /\ parentPaths[k].child \in MemberIds(members)
            /\ Includes(FindMember(members, parentPaths[k].child).parents,
                        parentPaths[k].parent)

\* a run has ended with a path between two nodes that are not one above the
\* other, on a list in which a parents entry names no person
ParentPathsWitness ==
    /\ Done
    /\ \E k \in DOMAIN parentPaths :
        parentPaths[k].points[1][1] # parentPaths[k].points[4][1]
    /\ \E i \in DOMAIN members :
        \E parentId \in Range(members[i].parents) : parentId \notin MemberIds(members)

(***************************************************************************)
(* C16.  Dangling partner: after a run on a list in which a person X lists *)
(* a partner id that no person of the list has, that id holds no slot of   *)
(* any row, has no position and is at neither end of a partner line; and   *)
(* when X lists no person of the list as partner and no person lists X, X  *)
(* holds exactly one slot of its row.                                      *)
(***************************************************************************)
DanglingPartners(m) ==
    UNION {Range(m[i].partners) : i \in DOMAIN m} \ MemberIds(m)

\* X is paired with no person of the list, from either side
Unpaired(m, i) ==
    /\ Range(m[i].partners) \cap MemberIds(m) = {}
    /\ \A j \in DOMAIN m : ~Includes(m[j].partners, m[i].id)

SlotsOf(id) ==
    UNION {{<<g, k>> : k \in {n \in DOMAIN sortedRows[g] : sortedRows[g][n] = id}} :
            g \in DOMAIN sortedRows}

DanglingPartnerIsIgnored ==
    (Done /\ members # <<>>) =>
        /\ \A pId \in DanglingPartners(members) :
            /\ SlotsOf(pId) = {}
            /\ pId \notin DOMAIN nodePositions
            /\ \A k \in DOMAIN partnerLines :
                partnerLines[k].from # pId /\ partnerLines[k].to # pId
        /\ \A i \in DOMAIN members :
            (Range(members[i].partners) # {} /\ Unpaired(members, i)) =>
                /\ Cardinality(SlotsOf(members[i].id)) = 1
                /\ \A k \in DOMAIN partnerLines :
                    partnerLines[k].from # members[i].id /\ partnerLines[k].to # members[i].id

\* a run has ended on a list of three persons in one row, the second of
\* which lists only a partner id that no person has
DanglingPartnerWitness ==
    /\ Done
    /\ Len(members) = 3
    /\ DOMAIN sortedRows = {0}
    /\ members[2].partners # <<>>
    /\ Unpaired(members, 2)
    /\ sortedRows[0] = IdsOf(members)

(***************************************************************************)
(* C17.  Canvas size is exact: after a run on a non-empty list the width   *)
(* is the greatest x + nodeWidth of a positioned person plus padding, and  *)
(* the height the greatest y + nodeHeight of a positioned person plus      *)
(* padding.                                                                *)
(***************************************************************************)
CanvasSizeIsExact ==
    (Done /\ members # <<>>) =>
        /\ dimensions.width =
            SetMax({nodePositions[id].x + nodeWidth : id \in DOMAIN nodePositions}) + padding
        /\ dimensions.height =
            SetMax({nodePositions[id].y + nodeHeight : id \in DOMAIN nodePositions}) + padding

\* a run has ended with two rows or more, in one of which a person was
\* appended twice, so that a slot that was written holds no node
CanvasSizeWitness ==
    /\ Done
    /\ Cardinality(DOMAIN sortedRows) >= 2
    /\ \E g \in DOMAIN sortedRows : Len(sortedRows[g]) > Len(genGroups[g])

(***************************************************************************)
(* C18.  Read-only input: no step of a layout run changes the list it was  *)
(* given: the persons, their fields and their order stay as they are.      *)
(***************************************************************************)
InputIsReadOnly == [][members' = members]_vars

\* a run has ended that read parents and partners and drew both kinds of
\* connectors
ReadOnlyWitness ==
    /\ Done
    /\ partnerLines # <<>>
    /\ parentPaths # <<>>
    /\ \E i \in DOMAIN members : Len(members[i].parents) = 0

(***************************************************************************)
(* C19.  Strict timeout of the search-tool call: performResilientSearch    *)
(* does not wait for the search-tool call without end: whenever it awaits  *)
(* that call, also when the call never responds, it goes on, returning the *)
(* search's text or issuing the fallback call; and what it returns after   *)
(* the fallback is the fallback's text with an empty sources list.         *)
(***************************************************************************)
SearchWaitEnds ==
    /\ (searchPc = "search") ~> (searchPc \in {"fallback", "returned"})
    /\ [](searchPc = "returned" /\ fallbackResponse.state = "fulfilled" =>
            /\ searchResult.text = FallbackText(fallbackResponse.text)
            /\ searchResult.sources = <<>>)

(***************************************************************************)
(* C20.  Row sequence is a permutation: after a run, the row of every      *)
(* generation lists each person of that generation exactly once, so that   *)
(* the N persons of a row hold the N slots padding + i * (nodeWidth +      *)
(* horizontalGap), i = 0..N-1, with no slot left empty.  Stated for the    *)
(* well-formed lists.                                                      *)
(***************************************************************************)
RowIsPermutation(g) ==
    /\ Len(sortedRows[g]) = Len(genGroups[g])
    /\ Range(sortedRows[g]) = Range(genGroups[g])
    /\ {nodePositions[id].x : id \in Range(genGroups[g])} =
        {padding + i * (nodeWidth + horizontalGap) : i \in 0..(Len(genGroups[g]) - 1)}

RowsArePermutations ==
    (Done /\ members # <<>> /\ WellFormed(members)) =>
        \A g \in DOMAIN genGroups : RowIsPermutation(g)

(***************************************************************************)
(* C21.  Paired partners end up adjacent: after a run, for every pairing   *)
(* the row ordering made, the positions of the member and of its partner   *)
(* have the same y, and x values that differ by exactly nodeWidth +        *)
(* horizontalGap.  Stated for the well-formed lists.                       *)
(***************************************************************************)
Distance(a, b) == IF a >= b THEN a - b ELSE b - a

PairedPartnersAdjacent ==
    (Done /\ members # <<>> /\ WellFormed(members)) =>
        \A g \in DOMAIN genGroups :
            \A e \in RowPairs(members, genGroups[g]) :
                /\ nodePositions[e.member].y = nodePositions[e.partner].y
                /\ Distance(nodePositions[e.member].x, nodePositions[e.partner].x)
                        = nodeWidth + horizontalGap

(***************************************************************************)
(* C22.  Partner choice: in row ordering, a member that is not yet placed  *)
(* when its turn comes and has a partner id of a person of its generation  *)
(* is paired, once, with the first such id of its partners array; a member *)
(* that is not yet placed and has no such id is appended alone, in one     *)
(* slot, and is the member of no pairing.                                  *)
(***************************************************************************)
\* the ids of the partners array of the person that persons of the row have
SameRowPartners(id, g) ==
    {k \in DOMAIN FindMember(members, id).partners :
        FindMember(members, id).partners[k] \in Range(genGroups[g])}

\* the person was appended as the partner of a member of an earlier turn
PlacedBefore(id, i, g) ==
    \E e \in RowPairs(members, genGroups[g]) : e.partner = id /\ e.turn < i

PartnerChoiceAt(i, g) ==
    LET id == genGroups[g][i]
        partners == FindMember(members, id).partners
        pairs == {e \in RowPairs(members, genGroups[g]) : e.member = id}
        singles == {e \in RowSingles(members, genGroups[g]) : e.member = id}
    IN IF PlacedBefore(id, i, g)
       THEN pairs = {} /\ singles = {}
       ELSE IF SameRowPartners(id, g) # {}
       THEN /\ singles = {}
            /\ Cardinality(pairs) = 1
            /\ \A e \in pairs :
                /\ e.partner = partners[SetMin(SameRowPartners(id, g))]
                /\ {sortedRows[g][e.at], sortedRows[g][e.at + 1]} = {id, e.partner}
       ELSE /\ pairs = {}
            /\ Cardinality(singles) = 1
            /\ \A e \in singles : sortedRows[g][e.at] = id

FirstSameRowPartnerIsChosen ==
    (Done /\ members # <<>>) =>
        \A g \in DOMAIN genGroups :
            \A i \in DOMAIN genGroups[g] : PartnerChoiceAt(i, g)

\* a run has ended in which a member was paired with the second id of its
\* partners array, the id of another person, the first being the id of a
\* person of another generation, which was appended alone
PartnerChoiceWitness ==
    /\ Done
    /\ \E g \in DOMAIN genGroups :
        \E e \in RowPairs(members, genGroups[g]) :
            /\ e.partner # e.member
            /\ Len(FindMember(members, e.member).partners) = 2
            /\ FindMember(members, e.member).partners[2] = e.partner
            /\ \E h \in DOMAIN genGroups \ {g} :
                \E f \in RowSingles(members, genGroups[h]) :
                    f.member = FindMember(members, e.member).partners[1]

(***************************************************************************)
(* C23.  Orphan sweep: after a run every person of the list has a          *)
(* generation.  Of the persons that the traversal of the root candidates   *)
(* does not reach, the first in list order has generation 0, and each of   *)
(* the others has generation 0, or one more than a parent among them, or   *)
(* the generation of one of them that lists it as partner.  On a list in   *)
(* which every person has a parents entry, the first person has            *)
(* generation 0.                                                           *)
(***************************************************************************)
\* the ids that rootNodes.forEach(r => assignGen(r.id, 0)) reaches
ReachedFromRoots(m) ==
    ForEachCall(m, [generations |-> EmptyMap, processed |-> {}],
                CallsFor(IdsOf(RootNodes(m)), 0)).processed

\* the persons that are left to the sweep of line 56
Orphans(m) == {i \in DOMAIN m : m[i].id \notin ReachedFromRoots(m)}

OrphanSweepAssigns ==
    (Done /\ members # <<>>) =>
        /\ \A i \in DOMAIN members : members[i].id \in DOMAIN generations
        /\ Orphans(members) # {} =>
                generations[members[SetMin(Orphans(members))].id] = 0
        /\ \A i \in Orphans(members) :
            \/ generations[members[i].id] = 0
            \/ \E j \in Orphans(members) \ {i} :
                \/ /\ Includes(members[i].parents, members[j].id)
                   /\ generations[members[i].id] = generations[members[j].id] + 1
                \/ /\ Includes(members[j].partners, members[i].id)
                   /\ generations[members[i].id] = generations[members[j].id]
        /\ NoRootCandidate(members) => generations[members[1].id] = 0

\* a run has ended on a list of three persons without a root candidate:
\* the sweep gave one of them generation 1 and a partner of the first
\* person generation 0
OrphanSweepWitness ==
    /\ Done
    /\ Len(members) = 3
    /\ NoRootCandidate(members)
    /\ \E i, j \in DOMAIN members :
        /\ i # j
        /\ generations[members[i].id] = 1
        /\ generations[members[j].id] = 0
        /\ Includes(members[j].partners, members[1].id) \/ Includes(members[1].partners, members[j].id)

(***************************************************************************)
(* C24.  Dangling ids and the generation map.  As claimed: at the end of   *)
(* a run the generation map has entries only for ids of persons of the     *)
(* list, and an id that occurs only in parents or partners arrays has no   *)
(* entry and no position (GenerationMapHasOnlyPersons, which the code      *)
(* violates).  What the code does: every person of the list has an entry;  *)
(* an id of no person has an entry exactly when it occurs in a partners    *)
(* array, with the generation of a person that lists it, and never for     *)
(* occurring in parents arrays; an id of no person has no bucket, no row   *)
(* slot and no position (DanglingIdsGetNoPosition).                        *)
(***************************************************************************)
\* the ids of no person that occur in a partners array
DanglingPartnerIds(m) ==
    UNION {Range(m[i].partners) : i \in DOMAIN m} \ MemberIds(m)

\* the ids of no person that occur in a parents array
DanglingParentIds(m) ==
    UNION {Range(m[i].parents) : i \in DOMAIN m} \ MemberIds(m)

GenerationMapHasOnlyPersons ==
    Done =>
        /\ DOMAIN generations \subseteq MemberIds(members)
        /\ DOMAIN nodePositions \subseteq MemberIds(members)

DanglingIdsGetNoPosition ==
    Done =>
        /\ MemberIds(members) \subseteq DOMAIN generations
        /\ DOMAIN generations \ MemberIds(members) = DanglingPartnerIds(members)
        /\ \A id \in DanglingPartnerIds(members) :
            \E i \in DOMAIN members :
                /\ Includes(members[i].partners, id)
                /\ generations[id] = generations[members[i].id]
        /\ \A id \in DanglingParentIds(members) \ DanglingPartnerIds(members) :
                id \notin DOMAIN generations
        /\ DOMAIN nodePositions \subseteq MemberIds(members)
        /\ \A g \in DOMAIN genGroups :
                Range(genGroups[g]) \subseteq MemberIds(members)
        /\ \A g \in DOMAIN sortedRows :
                Range(sortedRows[g]) \subseteq MemberIds(members)

\* a run has ended on a list in which a person of generation 1 lists an id
\* of no person as partner, and another id of no person is only a parent
DanglingIdsWitness ==
    /\ Done
    /\ \E id \in DanglingPartnerIds(members) :
        /\ id \in DOMAIN generations
        /\ generations[id] = 1
    /\ \E i \in DOMAIN members :
        /\ members[i].parents # <<>>
        /\ Range(members[i].parents) \cap MemberIds(members) = {}
        /\ generations[members[i].id] = 0

(***************************************************************************)
(* C26.  No overlapping nodes: at the end of a run no two distinct persons *)
(* of the list have the same position, and two distinct persons of one     *)
(* generation have x values at least nodeWidth + horizontalGap apart, also *)
(* in a row to which a person was appended more than once.                 *)
(***************************************************************************)
NoOverlappingNodes ==
    Done =>
        \A i, j \in DOMAIN members :
            i # j =>
                LET p == nodePositions[members[i].id]
                    q == nodePositions[members[j].id]
                IN /\ p # q
                   /\ GenOf(generations, members[i].id)
                        = GenOf(generations, members[j].id)
                      => Distance(p.x, q.x) >= nodeWidth + horizontalGap

\* a run has ended with a row that holds one person twice next to another
\* person of the same generation
OverlapWitness ==
    /\ Done
    /\ \E g \in DOMAIN sortedRows :
        /\ Len(sortedRows[g]) > Len(genGroups[g])
        /\ Len(genGroups[g]) >= 2

(***************************************************************************)
(* C25.  Research failure falls back to the extracted data: when           *)
(* discoverExtendedFamily fails in processLineage for an initial result    *)
(* with members, the handler ends with extractionResult equal to the       *)
(* initial result, activeTab 'tree', isProcessing false, processingStatus  *)
(* null, and it sets no error message.                                     *)
(***************************************************************************)
\* tasks[i] is a processLineage whose research has failed
ResearchFailed(i) ==
    /\ tasks[i].handler \in {"handleInitialSearch", "processFile"}
    /\ tasks[i].awaiting = "discoverExtendedFamily"
    /\ tasks[i].state = "rejected"

ResearchFailureFallsBack ==
    [][\A i \in DOMAIN tasks :
        (ResearchFailed(i) /\ tasks' = Remove(tasks, i)) =>
            /\ tasks[i].initialResult.members # <<>>
            /\ extractionResult' = tasks[i].initialResult
            /\ activeTab' = "tree"
            /\ isProcessing' = FALSE
            /\ processingStatus' = Null
            /\ error' = error]_vars

\* the research of a search has failed while the search tab is shown and
\* extractionResult is an earlier, different result
ResearchFailureWitness ==
    \E i \in DOMAIN tasks :
        /\ ResearchFailed(i)
        /\ tasks[i].handler = "handleInitialSearch"
        /\ tasks[i].initialResult.members # <<>>
        /\ extractionResult.present
        /\ extractionResult # tasks[i].initialResult
        /\ activeTab = "upload"
        /\ Len(tasks) = 1

(***************************************************************************)
(* C27.  Quiescent state: whenever no handler is in flight, isProcessing   *)
(* is false and processingStatus is null, also after a handler that ended  *)
(* in failure.                                                             *)
(***************************************************************************)
QuiescentAppIsIdle ==
    tasks = <<>> => (isProcessing = FALSE /\ processingStatus = Null)

(***************************************************************************)
(* C28.  Chat does not disturb a running operation: a step of              *)
(* handleChatSubmit (its start, or its end) that is taken while a handler  *)
(* that set isProcessing is in flight leaves processingStatus neither null *)
(* nor 'chatting'.                                                         *)
(***************************************************************************)
\* a handler other than the chat is in flight
OperationInFlight ==
    \E j \in DOMAIN tasks : tasks[j].handler # "handleChatSubmit"

\* a step of handleChatSubmit
ChatStep ==
    \/ HandleChatSubmit
    \/ \E i \in DOMAIN tasks : HandleChatSubmitEnd(i)

ChatLeavesStatusAlone ==
    [][(OperationInFlight /\ ChatStep) =>
            processingStatus' \notin {Null, "chatting"}]_vars

(***************************************************************************)
(* C29.  Failed ancestor research leaves the tree unchanged: when          *)
(* discoverExtendedFamily fails in handleResearchAncestors, the handler    *)
(* leaves extractionResult and activeTab as they are, sets error, and      *)
(* resets isProcessing and processingStatus; and the handler begins (sets  *)
(* any state) only when extractionResult is a result with members.         *)
(***************************************************************************)
\* tasks[i] is a handleResearchAncestors whose research has failed
AncestorResearchFailed(i) ==
    /\ tasks[i].handler = "handleResearchAncestors"
    /\ tasks[i].state = "rejected"

\* this step begins a handleResearchAncestors
AncestorResearchBegins ==
    /\ Len(tasks') = Len(tasks) + 1
    /\ tasks'[Len(tasks')].handler = "handleResearchAncestors"

FailedAncestorResearchLeavesTree ==
    [][/\ \A i \in DOMAIN tasks :
            (AncestorResearchFailed(i) /\ tasks' = Remove(tasks, i)) =>
                /\ extractionResult' = extractionResult
                /\ activeTab' = activeTab
                /\ error' = "No deeper ancestors were found in public archives for this profile."
                /\ isProcessing' = FALSE
                /\ processingStatus' = Null
                /\ UNCHANGED <<showUpdateModal, chatHistory, isChatOpen,
                               previewImageData, showPreview>>
       /\ AncestorResearchBegins =>
            (extractionResult.present /\ extractionResult.members # <<>>)]_vars

\* an ancestor research has failed while the tree tab shows the result
AncestorFailureWitness ==
    \E i \in DOMAIN tasks :
        /\ AncestorResearchFailed(i)
        /\ Len(tasks) = 1
        /\ extractionResult.present
        /\ extractionResult.members # <<>>
        /\ activeTab = "tree"
        /\ isProcessing
        /\ processingStatus = "researching"
        /\ error = Null

(***************************************************************************)
(* C30.  Result views require a result: in every state activeTab is 'tree' *)
(* or 'list' only if extractionResult is not null.                         *)
(***************************************************************************)
ResultViewsRequireResult ==
    activeTab \in {"tree", "list"} => extractionResult.present

\* after a start over: the search tab without a result, and the image of a
\* preview, which only a result view makes
StartOverWitness ==
    /\ ~extractionResult.present
    /\ activeTab = "upload"
    /\ previewImageData # Null
    /\ ~showPreview
    /\ tasks = <<>>

====
